---- MODULE Spec2Model ----
(***************************************************************************)
(* Model of the two command-line tools of the repository:                  *)
(*   elf-test       (src/elf-test/src/main.rs)  read, resolve the          *)
(*                  signature region, decode, transpile, run;              *)
(*   transpile_elf  (src/transpile_elf.rs)      read, decode, transpile,   *)
(*                  write <elf>.vmexe.                                     *)
(*                                                                         *)
(* Machine integers are kept at their width.  A u64 is a sequence of four  *)
(* 16-bit limbs and a u32 a sequence of two, most significant limb first,  *)
(* so that values above 2^31 are computed limb by limb.                    *)
(***************************************************************************)
EXTENDS Integers, Sequences, FiniteSets

\* Longest symbol table of an input ELF.
MaxSyms == 3

--------------------------------------------------------------------------
(* Machine integers *)

Limb == 2^16

\* A limb sequence of n zero limbs.
Zeros(n) == [i \in 1..n |-> 0]

\* Some(v) / None of Rust's Option.
None == [some |-> FALSE]
Some(v) == [some |-> TRUE, val |-> v]

\* `x as u32` on a u64: the low 32 bits (the two low limbs).
AsU32(a) == SubSeq(a, Len(a) - 1, Len(a))

\* `x as usize` on a u32 (64-bit target): zero extension.
AsUsize(x) == Zeros(2) \o x

\* `a < b` on unsigned integers of the same width.
RECURSIVE Lt(_, _)
Lt(a, b) ==
    IF Len(a) = 0 THEN FALSE
    ELSE IF a[1] # b[1] THEN a[1] < b[1]
    ELSE Lt(Tail(a), Tail(b))

\* `a - b` on u32, wrapping (what a release build computes).
WrappingSub(a, b) ==
    LET lo     == a[2] - b[2]
        borrow == IF lo < 0 THEN 1 ELSE 0
    IN  << (a[1] - b[1] - borrow) % Limb, lo % Limb >>

\* Integer::to_string: the decimal digits of an unsigned integer, most
\* significant first, by repeated division of the limb sequence by ten.
RECURSIVE DivTen(_, _)
DivTen(a, rem) ==
    \* <<quotient limbs, remainder>> of (rem * Limb^Len(a) + a) / 10
    IF Len(a) = 0 THEN << <<>>, rem >>
    ELSE LET cur  == rem * Limb + a[1]
             rest == DivTen(Tail(a), cur % 10)
         IN  << <<cur \div 10>> \o rest[1], rest[2] >>

RECURSIVE to_string(_)
to_string(a) ==
    LET qr == DivTen(a, 0)
    IN  IF qr[1] = Zeros(Len(a)) THEN << qr[2] >>
        ELSE to_string(qr[1]) \o << qr[2] >>

--------------------------------------------------------------------------
(* Inputs *)

\* Symbol addresses the object crate reports (u64).
Addrs ==
    { << 0, 0, 0, 4096 >>,          \* 0x0000_0000_0000_1000
      << 0, 0, 0, 4160 >>,          \* 0x0000_0000_0000_1040
      << 0, 0, 32768, 8192 >>,      \* 0x0000_0000_8000_2000
      << 0, 1, 32768, 32 >> }       \* 0x0000_0001_8000_0020

\* A symbol's name: Ok(name), or Err when the name is not valid.
NameErr == [ok |-> FALSE]
NameOk(s) == [ok |-> TRUE, str |-> s]
Names == { NameOk("begin_signature"), NameOk("end_signature"), NameOk("main") }

\* The symbols of a file of class bits (32 or 64): an ELF32 symbol value has
\* 32 bits, which the object crate widens to u64.
Symbols(bits) ==
    [name : Names,
     address : { a \in Addrs : bits = 64 \/ SubSeq(a, 1, 2) = Zeros(2) }]
    \cup { [name |-> NameErr, address |-> << 0, 0, 0, 4096 >>] }

RECURSIVE SeqsUpTo(_, _)
SeqsUpTo(S, n) ==
    IF n = 0 THEN { <<>> }
    ELSE LET shorter == SeqsUpTo(S, n - 1)
         IN  shorter \cup { Append(s, x) : s \in { t \in shorter : Len(t) = n - 1 }, x \in S }

SymbolTables(bits) == SeqsUpTo(Symbols(bits), MaxSyms)

\* The instruction families of a program's text, in program order.
Programs == { << "rv32i", "rv32m", "io" >>, << "rv32i", "custom" >> }

\* The contents of the file at <elf-path>: what the parsers can see of it.
RawBinaries ==
    [format : { "badmagic", "truncated" }, symtab : { <<>> }, text : { <<>> }]
    \cup [format : { "elf64le" }, symtab : SymbolTables(64), text : { <<>> }]
    \cup [format : { "elf32be" }, symtab : SymbolTables(32), text : { <<>> }]
    \cup [format : { "elf32le" }, symtab : SymbolTables(32), text : Programs]

\* argv: the program name, then the arguments given.
ArgVectors(t) ==
    { << t >>, << t, "prog.elf" >>, << t, "prog.elf", "out.sig" >> }

--------------------------------------------------------------------------
(* find_signature_bounds *)

\* ScanStep keeping the first address seen for each name.
ScanStepFirstWins(acc, symbol) ==
    IF symbol.name.ok
    THEN IF symbol.name.str = "begin_signature"
         THEN << IF acc[1].some THEN acc[1] ELSE Some(AsU32(symbol.address)), acc[2] >>
         ELSE IF symbol.name.str = "end_signature"
         THEN << acc[1], IF acc[2].some THEN acc[2] ELSE Some(AsU32(symbol.address)) >>
         ELSE acc
    ELSE acc

\* One iteration of the loop over obj.symbols(): acc is <<begin_addr, end_addr>>.
ScanStep(acc, symbol) ==
    IF symbol.name.ok
    THEN IF symbol.name.str = "begin_signature"
         THEN << Some(AsU32(symbol.address)), acc[2] >>
         ELSE IF symbol.name.str = "end_signature"
         THEN << acc[1], Some(AsU32(symbol.address)) >>
         ELSE acc
    ELSE acc

\* The whole loop, from begin_addr = None, end_addr = None.
RECURSIVE Scan(_)
Scan(syms) ==
    IF Len(syms) = 0 THEN << None, None >>
    ELSE ScanStep(Scan(SubSeq(syms, 1, Len(syms) - 1)), syms[Len(syms)])

\* MatchBounds with the guard `begin <= end`.
MatchBoundsNonStrict(b, e) ==
    IF b.some /\ e.some /\ ~Lt(e.val, b.val)
    THEN Some(<< b.val, e.val >>)
    ELSE None

\* The final match on (begin_addr, end_addr).
MatchBounds(b, e) ==
    IF b.some /\ e.some /\ Lt(b.val, e.val)
    THEN Some(<< b.val, e.val >>)
    ELSE None

\* object::File::parse(elf_data).ok(): the object crate reads ELF files of
\* both classes and both byte orders, and rejects a file with no known magic
\* or with headers cut short.
ObjectParse(raw) ==
    IF raw.format \in { "elf32le", "elf32be", "elf64le" } THEN Some(raw.symtab) ELSE None

find_signature_bounds(raw) ==
    LET obj == ObjectParse(raw)
    IN  IF ~obj.some THEN None
        ELSE LET acc == Scan(obj.val) IN MatchBounds(acc[1], acc[2])

--------------------------------------------------------------------------
(* The collaborators main calls: the decoder, the transpiler, the SDK *)

Ok(v) == [ok |-> TRUE, val |-> v]
Err(e) == [ok |-> FALSE, err |-> e]

\* Elf::decode(raw, base): a 32-bit little-endian ELF decodes to the program
\* image rebased at base; anything else is MalformedElf.
Decode(raw, base) ==
    IF raw.format = "elf32le"
    THEN Ok([base |-> base, instructions |-> raw.text])
    ELSE Err("MalformedElf")

\* The three rule sets main configures, in the order of with_extension.
Extensions == << "rv32i", "rv32m", "io" >>

\* VmExe::from_elf(elf, transpiler): every instruction is rewritten by the
\* rule set that claims it; one that no rule set claims is an error.
FromElf(elf, extensions) ==
    IF \A i \in 1..Len(elf.instructions) :
          \E j \in 1..Len(extensions) : extensions[j] = elf.instructions[i]
    THEN Ok([pc_base |-> elf.base,
             program |-> [i \in 1..Len(elf.instructions) |->
                             << "vm", elf.instructions[i] >>]])
    ELSE Err("UnsupportedInstruction")

\* How the virtual machine ends a run of a program.
ExecOutcomes == { "halted", "fault" }

\* Sdk::execute(exe, vm_config, stdin): runs the program; nothing is captured.
Execute(x, outcome) ==
    [call    |-> [fn |-> "execute", exe |-> x, path |-> None],
     result  |-> IF outcome = "halted" THEN Ok("unit") ELSE Err("ExecutionFault"),
     written |-> { }]

\* Sdk::execute_with_signature(exe, vm_config, stdin, Some(path)): runs the
\* program and, once it has halted, dumps the region the environment names
\* (RISC0_SIG_BEGIN_ADDR, RISC0_SIG_SIZE) to path.
ExecuteWithSignature(x, path, e, outcome) ==
    [call    |-> [fn |-> "execute_with_signature", exe |-> x, path |-> Some(path)],
     result  |-> IF outcome = "halted" THEN Ok("unit") ELSE Err("ExecutionFault"),
     written |-> IF outcome = "halted"
                 THEN { [path |-> path,
                         contents |-> [region_begin |-> e["RISC0_SIG_BEGIN_ADDR"],
                                       region_size  |-> e["RISC0_SIG_SIZE"]]] }
                 ELSE { }]

\* openvm_sdk::fs::write_exe_to_file(exe, path): the file holds the encoded
\* executable, or the write fails and leaves no file.
WriteExeToFile(x, path, io_ok) ==
    [call    |-> [fn |-> "write_exe_to_file", exe |-> x, path |-> Some(path)],
     result  |-> IF io_ok THEN Ok("unit") ELSE Err("IoFailure"),
     written |-> IF io_ok THEN { [path |-> path, contents |-> x] } ELSE { }]

--------------------------------------------------------------------------
(* State *)

VARIABLES
    tool,        \* which binary runs: "elf-test" or "transpile_elf"
    args,        \* env::args()
    pc,          \* the statement of main to run next, or "exited"
    elf_data,    \* fs::read's buffer
    begin_addr,  \* find_signature_bounds' begin_addr after its loop
    end_addr,    \* find_signature_bounds' end_addr after its loop
    bounds,      \* main's (begin, end)
    size,        \* main's size
    env,         \* the process environment
    elf,         \* the decoded program image
    exe,         \* the transpiled executable
    calls,       \* the SDK calls made, in order
    files,       \* the files the run has written: [path, contents]
    log,         \* the stages started, in order, each with its outcome
    error,       \* what ended the run, when it failed
    exit_code    \* the process status once exited

vars == << tool, args, pc, elf_data, begin_addr, end_addr, bounds, size, env,
           elf, exe, calls, files, log, error, exit_code >>

EnvNames == { "PATH", "RISC0_SIG_BEGIN_ADDR", "RISC0_SIG_SIZE" }

\* The environment the process starts with.
StartEnv == [n \in EnvNames |-> IF n = "PATH" THEN Some("/usr/bin") ELSE None]

\* std::env::set_var
SetVar(e, name, value) == [e EXCEPT ![name] = Some(value)]

Init ==
    /\ tool \in { "elf-test", "transpile_elf" }
    /\ args \in ArgVectors(tool)
    /\ pc = "start"
    /\ elf_data = None
    /\ begin_addr = None
    /\ end_addr = None
    /\ bounds = None
    /\ size = None
    /\ env = StartEnv
    /\ elf = None
    /\ exe = None
    /\ calls = << >>
    /\ files = { }
    /\ log = << >>
    /\ error = None
    /\ exit_code = None

\* A stage completed: main goes on to the statement at next.
Pass(stage, next) ==
    /\ log' = Append(log, [stage |-> stage, ok |-> TRUE])
    /\ pc' = next
    /\ UNCHANGED << error, exit_code >>

\* A stage failed: `?` returns the error from main (status 1) and a panic
\* unwinds out of it (status 101).
Fail(stage, e, status) ==
    /\ log' = Append(log, [stage |-> stage, ok |-> FALSE])
    /\ pc' = "exited"
    /\ error' = Some(e)
    /\ exit_code' = Some(status)

\* fs::read(elf_path): the file's bytes, or an I/O error.
ReadResults == { Err("IoFailure") } \cup { Ok(raw) : raw \in RawBinaries }

--------------------------------------------------------------------------
(* elf-test: src/elf-test/src/main.rs *)

\* lines 37-41: too few arguments.
A_Usage ==
    /\ tool = "elf-test" /\ pc = "start"
    /\ Len(args) < 2
    /\ pc' = "exited"
    /\ error' = Some("Usage")
    /\ exit_code' = Some(1)
    /\ UNCHANGED << tool, args, elf_data, begin_addr, end_addr, bounds, size,
                    env, elf, exe, calls, files, log >>

\* line 48
A_Read ==
    /\ tool = "elf-test" /\ pc = "start"
    /\ ~(Len(args) < 2)
    /\ \E r \in ReadResults :
          IF r.ok
          THEN /\ elf_data' = Some(r.val)
               /\ Pass("read", "resolve")
          ELSE /\ Fail("read", r.err, 1)
               /\ UNCHANGED elf_data
    /\ UNCHANGED << tool, args, begin_addr, end_addr, bounds, size, env, elf,
                    exe, calls, files >>

\* A_Resolve with the missing region tolerated (`if let Some(..)` in place
\* of `.expect(..)`): the run goes on to decode without a region.
A_ResolveLenient ==
    /\ tool = "elf-test" /\ pc = "resolve"
    /\ LET obj == ObjectParse(elf_data.val)
           acc == IF obj.some THEN Scan(obj.val) ELSE << None, None >>
           r   == find_signature_bounds(elf_data.val)
       IN  /\ begin_addr' = acc[1]
           /\ end_addr' = acc[2]
           /\ bounds' = r
           /\ Pass("resolve", IF r.some THEN "size" ELSE "decode")
    /\ UNCHANGED << tool, args, elf_data, size, env, elf, exe, calls, files >>

\* lines 51-52: find_signature_bounds(&elf_data).expect(..)
A_Resolve ==
    /\ tool = "elf-test" /\ pc = "resolve"
    /\ LET obj == ObjectParse(elf_data.val)
           acc == IF obj.some THEN Scan(obj.val) ELSE << None, None >>
           r   == find_signature_bounds(elf_data.val)
       IN  /\ begin_addr' = acc[1]
           /\ end_addr' = acc[2]
           /\ IF r.some
              THEN /\ bounds' = r
                   /\ Pass("resolve", "size")
              ELSE /\ Fail("resolve", "SignatureSymbolsNotFound", 101)
                   /\ UNCHANGED bounds
    /\ UNCHANGED << tool, args, elf_data, size, env, elf, exe, calls, files >>

\* A_Size with the operands exchanged: begin - end.
A_SizeSwapped ==
    /\ tool = "elf-test" /\ pc = "size"
    /\ LET begin == bounds.val[1]
           end   == bounds.val[2]
       IN  \E overflow_checks \in BOOLEAN :
              IF Lt(begin, end) /\ overflow_checks
              THEN /\ pc' = "exited"
                   /\ error' = Some("SubtractOverflow")
                   /\ exit_code' = Some(101)
                   /\ UNCHANGED size
              ELSE /\ size' = Some(AsUsize(WrappingSub(begin, end)))
                   /\ pc' = "setenv"
                   /\ UNCHANGED << error, exit_code >>
    /\ UNCHANGED << tool, args, elf_data, begin_addr, end_addr, bounds, env,
                    elf, exe, calls, files, log >>

\* line 54: (end - begin) as usize.  A subtraction that overflows panics in a
\* build with overflow checks and wraps in one without.
A_Size ==
    /\ tool = "elf-test" /\ pc = "size"
    /\ LET begin == bounds.val[1]
           end   == bounds.val[2]
       IN  \E overflow_checks \in BOOLEAN :
              IF Lt(end, begin) /\ overflow_checks
              THEN /\ pc' = "exited"
                   /\ error' = Some("SubtractOverflow")
                   /\ exit_code' = Some(101)
                   /\ UNCHANGED size
              ELSE /\ size' = Some(AsUsize(WrappingSub(end, begin)))
                   /\ pc' = "setenv"
                   /\ UNCHANGED << error, exit_code >>
    /\ UNCHANGED << tool, args, elf_data, begin_addr, end_addr, bounds, env,
                    elf, exe, calls, files, log >>

\* A_SetEnv publishing end where the size belongs.
A_SetEnvEnd ==
    /\ tool = "elf-test" /\ pc = "setenv"
    /\ env' = SetVar(SetVar(env, "RISC0_SIG_BEGIN_ADDR", to_string(bounds.val[1])),
                     "RISC0_SIG_SIZE", to_string(bounds.val[2]))
    /\ pc' = "decode"
    /\ UNCHANGED << tool, args, elf_data, begin_addr, end_addr, bounds, size,
                    elf, exe, calls, files, log, error, exit_code >>

\* lines 58-59
A_SetEnv ==
    /\ tool = "elf-test" /\ pc = "setenv"
    /\ env' = SetVar(SetVar(env, "RISC0_SIG_BEGIN_ADDR", to_string(bounds.val[1])),
                     "RISC0_SIG_SIZE", to_string(size.val))
    /\ pc' = "decode"
    /\ UNCHANGED << tool, args, elf_data, begin_addr, end_addr, bounds, size,
                    elf, exe, calls, files, log, error, exit_code >>

\* line 62: Elf::decode(&elf_data, 0x80000000)?
BaseA == << 32768, 0 >>

\* A_Decode with the error swallowed (`.unwrap_or_default()` in place of
\* `?`): the run goes on with an empty image.
A_DecodeSwallow ==
    /\ tool = "elf-test" /\ pc = "decode"
    /\ LET r == Decode(elf_data.val, BaseA)
       IN  /\ elf' = IF r.ok THEN Some(r.val)
                     ELSE Some([base |-> BaseA, instructions |-> << >>])
           /\ log' = Append(log, [stage |-> "decode", ok |-> r.ok])
           /\ pc' = "transpile"
           /\ UNCHANGED << error, exit_code >>
    /\ UNCHANGED << tool, args, elf_data, begin_addr, end_addr, bounds, size,
                    env, exe, calls, files >>

A_Decode ==
    /\ tool = "elf-test" /\ pc = "decode"
    /\ LET r == Decode(elf_data.val, BaseA)
       IN  IF r.ok
           THEN /\ elf' = Some(r.val)
                /\ Pass("decode", "transpile")
           ELSE /\ Fail("decode", r.err, 1)
                /\ UNCHANGED elf
    /\ UNCHANGED << tool, args, elf_data, begin_addr, end_addr, bounds, size,
                    env, exe, calls, files >>

\* lines 66-72: VmExe::from_elf(elf, ..)?
A_Transpile ==
    /\ tool = "elf-test" /\ pc = "transpile"
    /\ LET r == FromElf(elf.val, Extensions)
       IN  IF r.ok
           THEN /\ exe' = Some(r.val)
                /\ Pass("transpile", "run")
           ELSE /\ Fail("transpile", r.err, 1)
                /\ UNCHANGED exe
    /\ UNCHANGED << tool, args, elf_data, begin_addr, end_addr, bounds, size,
                    env, elf, calls, files >>

\* SignaturePath reading args.get(1).
SignaturePathOffByOne(a) == IF Len(a) >= 2 THEN Some(a[2]) ELSE None

\* line 44: args.get(2)
SignaturePath(a) == IF Len(a) >= 3 THEN Some(a[3]) ELSE None

\* lines 85-97
A_Run ==
    /\ tool = "elf-test" /\ pc = "run"
    /\ \E outcome \in ExecOutcomes :
          LET signature_path == SignaturePath(args)
              r == IF signature_path.some
                   THEN ExecuteWithSignature(exe.val, signature_path.val, env, outcome)
                   ELSE Execute(exe.val, outcome)
          IN  /\ calls' = Append(calls, r.call)
              /\ files' = files \cup r.written
              /\ IF r.result.ok
                 THEN Pass("run", "done")
                 ELSE Fail("run", r.result.err, 1)
    /\ UNCHANGED << tool, args, elf_data, begin_addr, end_addr, bounds, size,
                    env, elf, exe >>

\* lines 99-100: Ok(())
A_Done ==
    /\ tool = "elf-test" /\ pc = "done"
    /\ pc' = "exited"
    /\ exit_code' = Some(0)
    /\ UNCHANGED << tool, args, elf_data, begin_addr, end_addr, bounds, size,
                    env, elf, exe, calls, files, log, error >>

--------------------------------------------------------------------------
(* transpile_elf: src/transpile_elf.rs *)

\* lines 13-18: the argument count is not exactly one.
B_Usage ==
    /\ tool = "transpile_elf" /\ pc = "start"
    /\ Len(args) # 2
    /\ pc' = "exited"
    /\ error' = Some("Usage")
    /\ exit_code' = Some(1)
    /\ UNCHANGED << tool, args, elf_data, begin_addr, end_addr, bounds, size,
                    env, elf, exe, calls, files, log >>

\* line 25
B_Read ==
    /\ tool = "transpile_elf" /\ pc = "start"
    /\ ~(Len(args) # 2)
    /\ \E r \in ReadResults :
          IF r.ok
          THEN /\ elf_data' = Some(r.val)
               /\ Pass("read", "decode")
          ELSE /\ Fail("read", r.err, 1)
               /\ UNCHANGED elf_data
    /\ UNCHANGED << tool, args, begin_addr, end_addr, bounds, size, env, elf,
                    exe, calls, files >>

\* line 26: Elf::decode(&elf_data, 0x20000000)?
BaseB == << 8192, 0 >>

B_Decode ==
    /\ tool = "transpile_elf" /\ pc = "decode"
    /\ LET r == Decode(elf_data.val, BaseB)
       IN  IF r.ok
           THEN /\ elf' = Some(r.val)
                /\ Pass("decode", "transpile")
           ELSE /\ Fail("decode", r.err, 1)
                /\ UNCHANGED elf
    /\ UNCHANGED << tool, args, elf_data, begin_addr, end_addr, bounds, size,
                    env, exe, calls, files >>

\* B_Transpile with an unsupported instruction skipped and not reported.
B_TranspileSkipsUnsupported ==
    /\ tool = "transpile_elf" /\ pc = "transpile"
    /\ LET r == FromElf(elf.val, Extensions)
           kept == [base |-> elf.val.base,
                    instructions |-> SelectSeq(elf.val.instructions,
                        LAMBDA op : \E j \in 1..Len(Extensions) : Extensions[j] = op)]
       IN  /\ exe' = Some(FromElf(kept, Extensions).val)
           /\ Pass("transpile", "save")
    /\ UNCHANGED << tool, args, elf_data, begin_addr, end_addr, bounds, size,
                    env, elf, calls, files >>

\* lines 30-36
B_Transpile ==
    /\ tool = "transpile_elf" /\ pc = "transpile"
    /\ LET r == FromElf(elf.val, Extensions)
       IN  IF r.ok
           THEN /\ exe' = Some(r.val)
                /\ Pass("transpile", "save")
           ELSE /\ Fail("transpile", r.err, 1)
                /\ UNCHANGED exe
    /\ UNCHANGED << tool, args, elf_data, begin_addr, end_addr, bounds, size,
                    env, elf, calls, files >>

\* line 21: format!("{}.vmexe", elf_path)
VmexePath(elf_path) == elf_path \o ".vmexe"

\* line 40
B_Write ==
    /\ tool = "transpile_elf" /\ pc = "save"
    /\ \E io_ok \in BOOLEAN :
          LET r == WriteExeToFile(exe.val, VmexePath(args[2]), io_ok)
          IN  /\ calls' = Append(calls, r.call)
              /\ files' = files \cup r.written
              /\ IF r.result.ok
                 THEN Pass("save", "done")
                 ELSE Fail("save", r.result.err, 1)
    /\ UNCHANGED << tool, args, elf_data, begin_addr, end_addr, bounds, size,
                    env, elf, exe >>

\* lines 42-43: Ok(())
B_Done ==
    /\ tool = "transpile_elf" /\ pc = "done"
    /\ pc' = "exited"
    /\ exit_code' = Some(0)
    /\ UNCHANGED << tool, args, elf_data, begin_addr, end_addr, bounds, size,
                    env, elf, exe, calls, files, log, error >>

--------------------------------------------------------------------------

Next ==
    \/ A_Usage \/ A_Read \/ A_Resolve \/ A_Size \/ A_SetEnv
    \/ A_Decode \/ A_Transpile \/ A_Run \/ A_Done
    \/ B_Usage \/ B_Read \/ B_Decode \/ B_Transpile \/ B_Write \/ B_Done

Spec == Init /\ [][Next]_vars

--------------------------------------------------------------------------
(* Vocabulary of the properties, stated apart from the code above *)

Attempted(stage) == \E i \in 1..Len(log) : log[i].stage = stage
Succeeded(stage) == \E i \in 1..Len(log) : log[i].stage = stage /\ log[i].ok

\* The entries of a symbol table that carry the name n.
Named(syms, n) == { i \in 1..Len(syms) : syms[i].name.ok /\ syms[i].name.str = n }
FirstOf(S) == CHOOSE i \in S : \A j \in S : i <= j
LastOf(S) == CHOOSE i \in S : \A j \in S : j <= i

\* An address modulo 2^32, and whether it is below 2^32.
Low32(a) == << a[3], a[4] >>
FitsU32(a) == a[1] = 0 /\ a[2] = 0

\* Order of unsigned integers written as limbs.
Below(a, b) ==
    \E i \in 1..Len(a) : a[i] < b[i] /\ \A j \in 1..(i - 1) : a[j] = b[j]

\* a + b on limbs: << the sum modulo Limb^Len(a), the carry out >>.
RECURSIVE Sum(_, _)
Sum(a, b) ==
    IF Len(a) = 0 THEN << << >>, 0 >>
    ELSE LET low == Sum(Tail(a), Tail(b))
             v   == a[1] + b[1] + low[2]
         IN  << << v % Limb >> \o low[1], v \div Limb >>

\* The number a decimal digit string denotes, as a u64.
RECURSIVE TimesTenPlus(_, _)
TimesTenPlus(a, d) ==
    IF Len(a) = 0 THEN << << >>, d >>
    ELSE LET low == TimesTenPlus(Tail(a), d)
             v   == a[1] * 10 + low[2]
         IN  << << v % Limb >> \o low[1], v \div Limb >>

RECURSIVE DecimalValue(_)
DecimalValue(digits) ==
    IF Len(digits) = 0 THEN Zeros(4)
    ELSE TimesTenPlus(DecimalValue(SubSeq(digits, 1, Len(digits) - 1)),
                      digits[Len(digits)])[1]

\* The file read is one whose symbol table the object crate can walk.
Walkable(raw) == raw.format \in { "elf32le", "elf32be", "elf64le" }

BeginSyms(raw) == Named(raw.symtab, "begin_signature")
EndSyms(raw) == Named(raw.symtab, "end_signature")

\* The addresses the resolver is left with for a file that has both names:
\* those of the last entry of each name, modulo 2^32.
BeginOf(raw) == Low32(raw.symtab[LastOf(BeginSyms(raw))].address)
EndOf(raw) == Low32(raw.symtab[LastOf(EndSyms(raw))].address)

\* The signature region of the file resolves.
Resolvable(raw) ==
    /\ Walkable(raw)
    /\ BeginSyms(raw) # { } /\ EndSyms(raw) # { }
    /\ Below(BeginOf(raw), EndOf(raw))

ModeA == tool = "elf-test"
ModeB == tool = "transpile_elf"

--------------------------------------------------------------------------
(* C1 *)

\* C1: for a symbol table whose addresses all fit in 32 bits, the resolver
\* returns the pair (begin, end) exactly when a begin_signature and an
\* end_signature entry are both present and begin < end, and returns None
\* when either is missing or begin >= end.  (With several entries of one
\* name, begin and end are those of the entry the scan is left with.)
C1_ResolverContract ==
    (ModeA /\ Attempted("resolve") /\ Walkable(elf_data.val)
       /\ \A i \in 1..Len(elf_data.val.symtab) : FitsU32(elf_data.val.symtab[i].address))
    => LET raw == elf_data.val
           present == BeginSyms(raw) # { } /\ EndSyms(raw) # { }
       IN  /\ bounds.some <=>
                (present /\ Below(raw.symtab[LastOf(BeginSyms(raw))].address,
                                  raw.symtab[LastOf(EndSyms(raw))].address))
           /\ bounds.some =>
                bounds.val = << Low32(raw.symtab[LastOf(BeginSyms(raw))].address),
                                Low32(raw.symtab[LastOf(EndSyms(raw))].address) >>

\* A run that resolved a region from a table of 32-bit addresses.
C1_Witness ==
    /\ ModeA /\ Attempted("resolve") /\ bounds.some
    /\ \A i \in 1..Len(elf_data.val.symtab) : FitsU32(elf_data.val.symtab[i].address)
    /\ Len(elf_data.val.symtab) = 3

--------------------------------------------------------------------------
(* C2 *)

\* C2, as claimed: with several entries of one reserved name, the resolver
\* records the address of the first such entry in scan order.
C2_FirstOccurrenceWins ==
    (ModeA /\ Attempted("resolve") /\ Walkable(elf_data.val))
    => LET raw == elf_data.val
       IN  /\ BeginSyms(raw) # { } =>
                begin_addr = Some(Low32(raw.symtab[FirstOf(BeginSyms(raw))].address))
           /\ EndSyms(raw) # { } =>
                end_addr = Some(Low32(raw.symtab[FirstOf(EndSyms(raw))].address))

\* C2, amended: the resolver records the address of the last entry of each
\* reserved name in scan order (every later entry of the name replaces the
\* address recorded so far), and records nothing for a name with no entry.
C2_LastOccurrenceWins ==
    (ModeA /\ Attempted("resolve") /\ Walkable(elf_data.val))
    => LET raw == elf_data.val
       IN  /\ begin_addr =
                IF BeginSyms(raw) = { } THEN None
                ELSE Some(Low32(raw.symtab[LastOf(BeginSyms(raw))].address))
           /\ end_addr =
                IF EndSyms(raw) = { } THEN None
                ELSE Some(Low32(raw.symtab[LastOf(EndSyms(raw))].address))

\* A resolved table with two begin_signature entries of different addresses.
C2_Witness ==
    /\ ModeA /\ Attempted("resolve") /\ Walkable(elf_data.val)
    /\ LET raw == elf_data.val
       IN  /\ Cardinality(BeginSyms(raw)) = 2
           /\ raw.symtab[FirstOf(BeginSyms(raw))].address
                # raw.symtab[LastOf(BeginSyms(raw))].address
           /\ begin_addr.some /\ bounds.some

--------------------------------------------------------------------------
(* C3 *)

\* C3: in Mode A, when the region of the file read cannot be resolved, the
\* process aborts at the resolve stage: nothing is decoded, transpiled or
\* executed, and no file is written, with or without a signature path.
C3_UnresolvedAbortsBeforeDecode ==
    (ModeA /\ elf_data.some /\ ~Resolvable(elf_data.val))
    => /\ pc \in { "resolve", "exited" }
       /\ pc = "exited" =>
            /\ exit_code = Some(101)
            /\ log[Len(log)] = [stage |-> "resolve", ok |-> FALSE]
       /\ ~Attempted("decode") /\ ~Attempted("transpile") /\ ~Attempted("run")
       /\ elf = None /\ exe = None
       /\ calls = << >>
       /\ files = { }

\* A run given a signature path whose file has no end_signature has aborted.
C3_Witness ==
    /\ ModeA /\ Len(args) = 3 /\ pc = "exited"
    /\ elf_data.some /\ elf_data.val.format = "elf32le"
    /\ BeginSyms(elf_data.val) # { } /\ EndSyms(elf_data.val) = { }

--------------------------------------------------------------------------
(* C4 *)

\* C4, as claimed: a Mode A run without a signature path whose region is
\* absent is not aborted by the resolver's outcome.
C4_NoCaptureNoAbort ==
    (ModeA /\ Len(args) = 2 /\ elf_data.some /\ ~Resolvable(elf_data.val)
       /\ Attempted("resolve"))
    => ~(pc = "exited" /\ error = Some("SignatureSymbolsNotFound"))

--------------------------------------------------------------------------
(* C5 *)

\* The instructions of the file are all claimed by one of the three rule sets.
AllSupported(raw) ==
    \A i \in 1..Len(raw.text) : raw.text[i] \in { "rv32i", "rv32m", "io" }

\* C5: in Mode B the only file ever written is <elf-path>.vmexe, and its
\* write is attempted only after read, decode and transpile have succeeded;
\* a file that does not decode, or holds an instruction no rule set covers,
\* ends the run with an error and no write attempted; a successful run has
\* written exactly that one file.
C5_VmexeOnlyAfterSuccess ==
    ModeB =>
       /\ calls # << >> =>
            /\ Succeeded("read") /\ Succeeded("decode") /\ Succeeded("transpile")
            /\ Len(calls) = 1
            /\ calls[1].fn = "write_exe_to_file"
            /\ calls[1].path = Some("prog.elf.vmexe")
            /\ elf_data.val.format = "elf32le" /\ AllSupported(elf_data.val)
       /\ \A f \in files : f.path = "prog.elf.vmexe" /\ calls # << >>
       /\ (\E i \in 1..Len(log) :
              log[i].stage \in { "read", "decode", "transpile" } /\ ~log[i].ok)
          => /\ calls = << >> /\ files = { }
             /\ pc = "exited" /\ exit_code = Some(1)
       /\ (pc = "exited" /\ exit_code = Some(0)) =>
            /\ Cardinality(files) = 1
            /\ \E f \in files : f.path = "prog.elf.vmexe" /\ f.contents = exe.val

\* A Mode B run that ended well, and its file.
C5_Witness ==
    /\ ModeB /\ pc = "exited" /\ exit_code = Some(0)
    /\ \E f \in files : f.path = "prog.elf.vmexe"

--------------------------------------------------------------------------
(* C6 *)

\* C6: in Mode A the driver is called at most once, only after transpile
\* succeeded, and exactly once by the time the run stage is over: as
\* execute_with_signature on the path given when a signature path argument
\* was supplied, and as execute, with no path, otherwise; without that
\* argument no file is written.
C6_DriverCalledOnce ==
    ModeA =>
       /\ Len(calls) <= 1
       /\ calls # << >> <=> Attempted("run")
       /\ Attempted("run") => Succeeded("transpile")
       /\ (Succeeded("transpile") /\ pc \in { "done", "exited" }) => Len(calls) = 1
       /\ calls # << >> =>
            IF Len(args) = 3
            THEN calls[1].fn = "execute_with_signature" /\ calls[1].path = Some("out.sig")
            ELSE calls[1].fn = "execute" /\ calls[1].path = None
       /\ \A f \in files : Len(args) = 3 /\ f.path = "out.sig"
       /\ Len(args) < 3 => files = { }

\* A run with a signature path that called the driver and got its file.
C6_Witness ==
    /\ ModeA /\ Len(args) = 3 /\ pc = "exited" /\ exit_code = Some(0)
    /\ Len(calls) = 1 /\ calls[1].fn = "execute_with_signature"
    /\ \E f \in files : f.path = "out.sig"

--------------------------------------------------------------------------
(* C7 *)

\* Lines 58-59 have run.
Published ==
    pc \in { "decode", "transpile", "run", "done" } \/ Attempted("decode")

\* C7, as claimed: no run of Mode A modifies the process environment.
C7_EnvironmentUntouched ==
    ModeA => env = StartEnv

\* C7, amended: the bounds are handed on through the process environment
\* and not as arguments of the driver's call.  A Mode A run that resolves
\* the region sets RISC0_SIG_BEGIN_ADDR to begin and RISC0_SIG_SIZE to
\* end - begin, both in decimal, before it decodes and so before it calls
\* the driver, and changes no other variable; until then, and in a run that
\* ends without resolving, the environment is as it was at the start.  The
\* driver's call carries the executable and the output path, and no bounds.
C7_BoundsPublishedInEnvironment ==
    ModeA =>
       /\ env["PATH"] = StartEnv["PATH"]
       /\ ~Published => env = StartEnv
       /\ Published =>
            /\ env["RISC0_SIG_BEGIN_ADDR"].some /\ env["RISC0_SIG_SIZE"].some
            /\ DecimalValue(env["RISC0_SIG_BEGIN_ADDR"].val)
                 = Zeros(2) \o BeginOf(elf_data.val)
            /\ Sum(DecimalValue(env["RISC0_SIG_BEGIN_ADDR"].val),
                   DecimalValue(env["RISC0_SIG_SIZE"].val))
                 = << Zeros(2) \o EndOf(elf_data.val), 0 >>
       /\ \A i \in 1..Len(calls) :
            /\ DOMAIN calls[i] = { "fn", "exe", "path" }
            /\ Published

\* A run that called the driver with the bounds set in the environment.
C7_Witness ==
    /\ ModeA /\ pc = "exited" /\ exit_code = Some(0)
    /\ env # StartEnv
    /\ Len(calls) = 1 /\ calls[1].fn = "execute_with_signature"

--------------------------------------------------------------------------
(* C8 *)

\* C8, as claimed: a Mode A run on a structurally corrupt file ends with
\* MalformedElf, raised by the decode stage.
C8_CorruptRejectedByDecoder ==
    (ModeA /\ pc = "exited" /\ elf_data.some
       /\ elf_data.val.format \in { "badmagic", "truncated", "elf64le", "elf32be" })
    => /\ error = Some("MalformedElf")
       /\ log[Len(log)] = [stage |-> "decode", ok |-> FALSE]

--------------------------------------------------------------------------
(* C9 *)

StageOrder ==
    IF ModeA THEN << "read", "resolve", "decode", "transpile", "run" >>
    ELSE << "read", "decode", "transpile", "save" >>

\* C9: the stages started are an initial part of the mode's fixed order,
\* each once; every stage but the last one started has succeeded; a failed
\* stage is the last, and the process has then ended, with a status other
\* than 0; status 0 is reached only with every stage done; and a process
\* that has ended does nothing more.
C9_StagesInOrderNoRetry ==
    /\ Len(log) <= Len(StageOrder)
    /\ \A i \in 1..Len(log) : log[i].stage = StageOrder[i]
    /\ \A i \in 1..(Len(log) - 1) : log[i].ok
    /\ (log # << >> /\ ~log[Len(log)].ok) =>
         /\ pc = "exited"
         /\ exit_code.some /\ exit_code.val # 0
    /\ exit_code = Some(0) =>
         /\ Len(log) = Len(StageOrder)
         /\ \A i \in 1..Len(log) : log[i].ok
    /\ pc = "exited" => exit_code.some /\ ~ENABLED Next

\* A run that failed at a middle stage, after the earlier ones succeeded.
C9_Witness ==
    /\ pc = "exited"
    /\ Len(log) = 3
    /\ ~log[3].ok

--------------------------------------------------------------------------
(* C10 *)

\* C10: once Mode A is past resolution, begin and end are the low 32 bits of
\* the symbol addresses, the size computed is end - begin with
\* 1 <= size <= 2^32 - 1 (begin + size = end with no carry out of 32 bits),
\* and that is the size published; a file whose low 32 bits are not in
\* increasing order is reported as absent whatever its 64-bit addresses are.
C10_SizeIsEndMinusBegin ==
    /\ (ModeA /\ Succeeded("resolve")) =>
         /\ bounds = Some(<< BeginOf(elf_data.val), EndOf(elf_data.val) >>)
         /\ Below(bounds.val[1], bounds.val[2])
         /\ error # Some("SubtractOverflow")
         /\ pc # "size" => size.some
    /\ (ModeA /\ size.some) =>
         /\ FitsU32(size.val)
         /\ size.val # Zeros(4)
         /\ Sum(bounds.val[1], Low32(size.val)) = << bounds.val[2], 0 >>
    /\ (ModeA /\ Published) =>
         DecimalValue(env["RISC0_SIG_SIZE"].val) = size.val
    /\ (ModeA /\ Attempted("resolve") /\ Walkable(elf_data.val)
          /\ BeginSyms(elf_data.val) # { } /\ EndSyms(elf_data.val) # { }
          /\ ~Below(BeginOf(elf_data.val), EndOf(elf_data.val)))
       => bounds = None /\ size = None /\ pc = "exited"

\* A size computed from a symbol address above 2^32.
C10_Witness ==
    /\ ModeA /\ size.some /\ Published
    /\ ~FitsU32(elf_data.val.symtab[LastOf(EndSyms(elf_data.val))].address)
    /\ Below(Zeros(2) \o bounds.val[1], size.val)

====
